---------------------------- MODULE Spec2Model ----------------------------
(***************************************************************************)
(* datacheck.py: the check of OpenStreetMap elements (check_data) and the  *)
(* cache of URL checks (url_data, is_url_ok, the pruning in main).         *)
(*                                                                         *)
(* A Python str is a sequence of one-character strings, so that the        *)
(* substring, prefix and parsing operations of the code are computed.      *)
(* A message built from a literal and a value is the record                *)
(* [text |-> literal, arg |-> value]; arg is <<>> for a bare literal.      *)
(* A date 'YYYY-MM-DD' is the number of its day.                           *)
(***************************************************************************)
EXTENDS Integers, Sequences, FiniteSets, TLC

VARIABLES
    pc,             \* position of the run: "start", "check", "write_cache", "done", "crashed"
    run,            \* number of the run of main (one process each)
    DATE,           \* the date of the run (line 18)
    overpass,       \* content of OVERPASS_FILE: the sequence data["elements"]
    url_file,       \* content of URL_DATA_FILE
    result_file,    \* content of VEGGIEPLACES_CHECK_RESULT_FILE: the written features
    url_data,       \* the global url_data (line 26)
    loaded,         \* what json.load returned from URL_DATA_FILE in this run (line 316)
    idx,            \* check_data: index of the next element of the loop (line 110)
    features,       \* check_data: places_data_checks["features"]
    calls,          \* the calls of is_url_ok made for the latest element, in order
    probed,         \* the urls requests.get was called with in this run
    looked_up,      \* the urls is_url_ok was called with in this run
    prev            \* of the previous run: [DATE, looked_up]; <<>> in the first run

vars == <<pc, run, DATE, overpass, url_file, result_file, url_data, loaded, idx,
          features, calls, probed, looked_up, prev>>

-----------------------------------------------------------------------------
(* Bounds of the model *)

\* the longest element list of OVERPASS_FILE
MaxElements == 2
\* the number of runs of main, each starting from the files of the one before
MaxRuns == 2

\* the retention of a cache entry, in days (line 325)
RetentionDays == 28

-----------------------------------------------------------------------------
(* The string literals of the code *)

k_name == <<"n","a","m","e">>
k_name_en == <<"n","a","m","e",":","e","n">>
k_amenity == <<"a","m","e","n","i","t","y">>
k_diet_vegan == <<"d","i","e","t",":","v","e","g","a","n">>
k_cuisine == <<"c","u","i","s","i","n","e">>
k_shop == <<"s","h","o","p">>
k_addr_street == <<"a","d","d","r",":","s","t","r","e","e","t">>
k_addr_housenumber == <<"a","d","d","r",":","h","o","u","s","e","n","u","m","b","e","r">>
k_addr_city == <<"a","d","d","r",":","c","i","t","y">>
k_addr_suburb == <<"a","d","d","r",":","s","u","b","u","r","b">>
k_addr_postcode == <<"a","d","d","r",":","p","o","s","t","c","o","d","e">>
k_contact_website == <<"c","o","n","t","a","c","t",":","w","e","b","s","i","t","e">>
k_website == <<"w","e","b","s","i","t","e">>
k_contact_facebook == <<"c","o","n","t","a","c","t",":","f","a","c","e","b","o","o","k">>
k_facebook == <<"f","a","c","e","b","o","o","k">>
k_contact_instagram == <<"c","o","n","t","a","c","t",":","i","n","s","t","a","g","r","a","m">>
k_instagram == <<"i","n","s","t","a","g","r","a","m">>
k_contact_email == <<"c","o","n","t","a","c","t",":","e","m","a","i","l">>
k_email == <<"e","m","a","i","l">>
k_contact_phone == <<"c","o","n","t","a","c","t",":","p","h","o","n","e">>
k_phone == <<"p","h","o","n","e">>
k_opening_hours_covid19 == <<"o","p","e","n","i","n","g","_","h","o","u","r","s",":","c","o","v","i","d","1","9">>
k_opening_hours == <<"o","p","e","n","i","n","g","_","h","o","u","r","s">>
s_node == <<"n","o","d","e">>
s_way == <<"w","a","y">>
s_relation == <<"r","e","l","a","t","i","o","n">>
s_vending_machine == <<"v","e","n","d","i","n","g","_","m","a","c","h","i","n","e">>
s_vending_machine_name == <<"v","e","n","d","i","n","g"," ","m","a","c","h","i","n","e">>
s_cafe == <<"c","a","f","e">>
s_ice_cream == <<"i","c","e","_","c","r","e","a","m">>
s_bar == <<"b","a","r">>
s_only == <<"o","n","l","y">>
s_yes == <<"y","e","s">>
s_limited == <<"l","i","m","i","t","e","d">>
s_no == <<"n","o">>
s_same == <<"s","a","m","e">>
s_restricted == <<"r","e","s","t","r","i","c","t","e","d">>
s_undefined == <<"u","n","d","e","f","i","n","e","d">>
s_http == <<"h","t","t","p",":","/","/">>
s_fb_root == <<"h","t","t","p","s",":","/","/","w","w","w",".","f","a","c","e","b","o","o","k",".","c","o","m","/">>
s_ig_root == <<"h","t","t","p","s",":","/","/","w","w","w",".","i","n","s","t","a","g","r","a","m",".","c","o","m","/">>
s_facebook == <<"f","a","c","e","b","o","o","k">>
s_instagram == <<"i","n","s","t","a","g","r","a","m">>
s_disused == <<"d","i","s","u","s","e","d">>
s_plus == <<"+">>
s_ConnectionError == <<"C","o","n","n","e","c","t","i","o","n","E","r","r","o","r">>
s_Timeout == <<"T","i","m","e","o","u","t">>
s_quote == <<"\"">>
\* the one character U+201D, the replacement of line 155
s_rdquote == <<"rdquo">>
s_lf == <<"\n">>
s_cr == <<"\r">>

-----------------------------------------------------------------------------
(* str operations *)

\* s[i:j] of Python with 0 <= i <= j: the characters at 0-based i .. j-1
Slice(s, i, j) == SubSeq(s, i + 1, IF j > Len(s) THEN Len(s) ELSE j)

\* s.startswith(p)
StartsWith(s, p) == Len(p) <= Len(s) /\ SubSeq(s, 1, Len(p)) = p

\* sub in s
Contains(s, sub) ==
    \E i \in 1..(Len(s) - Len(sub) + 1) : SubSeq(s, i, i + Len(sub) - 1) = sub

\* s.find(c) for a one-character c: the 0-based index of the first c, or -1
Find(s, c) ==
    IF \E i \in 1..Len(s) : s[i] = c
    THEN (CHOOSE i \in 1..Len(s) : s[i] = c /\ \A j \in 1..(i - 1) : s[j] # c) - 1
    ELSE -1

\* s.replace(a, b) for a one-character a
Replace(s, a, b) == [i \in 1..Len(s) |-> IF s[i] = a[1] THEN b[1] ELSE s[i]]

RECURSIVE Join(_)
\* "".join(seq) for a sequence of str
Join(seq) == IF seq = <<>> THEN <<>> ELSE Head(seq) \o Join(Tail(seq))

Digits == <<"0", "1", "2", "3", "4", "5", "6", "7", "8", "9">>

RECURSIVE Str(_)
\* str(n), and the formatting of an int by %s and {}, for n >= 0
Str(n) == IF n < 10 THEN <<Digits[n + 1]>> ELSE Str(n \div 10) \o <<Digits[(n % 10) + 1]>>

\* the elements of a list
Range(s) == {s[i] : i \in 1..Len(s)}

\* a message: a literal, and the value appended to it
Msg(text, arg) == [text |-> text, arg |-> arg]
Lit(text) == Msg(text, <<>>)

-----------------------------------------------------------------------------
(* dict operations; tags is the sequence of the items [k, v] in the order  *)
(* of the JSON object, which iteration over the dict follows               *)

\* key in tags
Has(tags, key) == \E i \in 1..Len(tags) : tags[i].k = key

\* tags.get(key, default)
Get(tags, key, default) ==
    IF Has(tags, key) THEN tags[CHOOSE i \in 1..Len(tags) : tags[i].k = key].v ELSE default

\* list(tags): the keys in order
Keys(tags) == [i \in 1..Len(tags) |-> tags[i].k]

\* d[key] = value of a dict d held as a function
Put(d, key, value) == [x \in (DOMAIN d) \cup {key} |-> IF x = key THEN value ELSE d[x]]

\* del d[key]
Del(d, key) == [x \in (DOMAIN d) \ {key} |-> d[x]]

\* the value None
None == "None"

-----------------------------------------------------------------------------
(* is_url_format_valid, lines 40-48 *)

\* str.isalpha() of an ASCII character
Alpha ==
    {"a", "b", "c", "d", "e", "f", "g", "h", "i", "j", "k", "l", "m", "n", "o", "p", "q", "r", "s", "t", "u", "v", "w", "x", "y", "z"}
    \cup {"A", "B", "C", "D", "E", "F", "G", "H", "I", "J", "K", "L", "M", "N", "O", "P", "Q", "R", "S", "T", "U", "V", "W", "X", "Y", "Z"}
\* urllib.parse.scheme_chars: letters, digits and "+-."
SchemeChars == Alpha \cup {"0", "1", "2", "3", "4", "5", "6", "7", "8", "9", "+", "-", "."}

\* the scheme of url whose first ":" is at the 0-based index i (-1: none):
\* what precedes it, when that is a letter followed by scheme characters
SchemeUpTo(url, i) ==
    IF i > 0 /\ url[1] \in Alpha /\ \A j \in 1..i : url[j] \in SchemeChars
    THEN Slice(url, 0, i) ELSE <<>>

\* urlparse(url).scheme
UrlScheme(url) == SchemeUpTo(url, Find(url, ":"))

\* url without its scheme and the colon after it
RestAfter(url, scheme) ==
    IF scheme # <<>> THEN Slice(url, Len(scheme) + 1, Len(url)) ELSE url

\* s up to the first of "/?#"
UpToStop(s) ==
    IF \E i \in 1..Len(s) : s[i] \in {"/", "?", "#"}
    THEN SubSeq(s, 1, (CHOOSE i \in 1..Len(s) :
                          /\ s[i] \in {"/", "?", "#"}
                          /\ \A j \in 1..(i - 1) : s[j] \notin {"/", "?", "#"}) - 1)
    ELSE s

\* the netloc of what follows the scheme: after a leading "//", up to the
\* first of "/?#"
NetlocOf(rest) ==
    IF StartsWith(rest, <<"/", "/">>) THEN UpToStop(Slice(rest, 2, Len(rest))) ELSE <<>>

\* urlparse(url).netloc
UrlNetloc(url) == NetlocOf(RestAfter(url, UrlScheme(url)))

\* urlparse raises ValueError for a netloc with one bracket and not the other
\* (what a Python version checks of a host in brackets beyond that is not
\* modelled; no url of the inputs has a bracket)
BracketsUnbalanced(netloc) == Contains(netloc, <<"[">>) # Contains(netloc, <<"]">>)

UrlParseRaises(url) == BracketsUnbalanced(UrlNetloc(url))

is_url_format_valid(url) ==
    IF UrlParseRaises(url) THEN FALSE
    ELSE UrlScheme(url) # <<>> /\ UrlNetloc(url) # <<>>

-----------------------------------------------------------------------------
(* is_url_ok, lines 51-98 *)

\* what requests.get(url, timeout=5) does: it raises an exception of the named
\* class, or (exception = <<>>) returns a response with the status code
Response(code) == [exception |-> <<>>, status_code |-> code]
Raised(name) == [exception |-> name, status_code |-> 0]
Outcomes ==
    {Raised(s_ConnectionError), Raised(s_Timeout)}
    \cup {Response(c) : c \in {200, 399, 400, 403, 404, 429, 500}}
\* no request was made
NoOutcome == Raised(<<>>)

\* the answers the network can give to the call is_url_ok(url) when made
\* with the cache as it is: one of Outcomes when the call requests the url
Oracle(made, url, cache) ==
    IF made /\ url \notin DOMAIN cache /\ is_url_format_valid(url)
    THEN Outcomes ELSE {NoOutcome}

\* probe_result with the status 429 not told apart from the other statuses
\* of 400 and above
probe_result_hard_429(outcome, today) ==
    IF outcome.exception # <<>>
    THEN [date |-> today, isOk |-> FALSE, text |-> Msg("Exception: ", outcome.exception)]
    ELSE IF outcome.status_code < 400
    THEN [date |-> today, isOk |-> TRUE, text |-> Lit("OK")]
    ELSE IF outcome.status_code = 403
    THEN [date |-> today, isOk |-> TRUE,
          text |-> Lit("Can't do full check: HTTP response: Forbidden")]
    ELSE [date |-> today, isOk |-> FALSE,
          text |-> Msg("HTTP response code ", Str(outcome.status_code))]

\* lines 69-94: the result of the request
probe_result(outcome, today) ==
    IF outcome.exception # <<>>
    THEN [date |-> today, isOk |-> FALSE, text |-> Msg("Exception: ", outcome.exception)]
    ELSE IF outcome.status_code < 400
    THEN [date |-> today, isOk |-> TRUE, text |-> Lit("OK")]
    ELSE IF outcome.status_code = 403
    THEN [date |-> today, isOk |-> TRUE,
          text |-> Lit("Can't do full check: HTTP response: Forbidden")]
    ELSE IF outcome.status_code = 429
    THEN [date |-> today, isOk |-> TRUE,
          text |-> Lit("Can't do full check: HTTP response: Too Many Requests")]
    ELSE [date |-> today, isOk |-> FALSE,
          text |-> Msg("HTTP response code ", Str(outcome.status_code))]

\* is_url_ok with a request made also for a url that fails the format check
is_url_ok_probe_first(url, cache, today, outcome) ==
    IF url \in DOMAIN cache
    THEN [result |-> [date |-> today, isOk |-> cache[url].isOk, text |-> cache[url].text],
          requests |-> <<>>, url_data |-> cache]
    ELSE IF is_url_format_valid(url)
    THEN [result |-> probe_result(outcome, today), requests |-> <<url>>, url_data |-> cache]
    ELSE [result |-> [date |-> today, isOk |-> FALSE, text |-> Lit("No valid URL format")],
          requests |-> <<url>>, url_data |-> cache]

\* is_url_ok(url) with url_data = cache and DATE = today: the returned result,
\* the urls requests.get was called with, and url_data after the call
is_url_ok(url, cache, today, outcome) ==
    IF url \in DOMAIN cache
    THEN [result |-> [date |-> today, isOk |-> cache[url].isOk, text |-> cache[url].text],
          requests |-> <<>>, url_data |-> cache]
    ELSE IF is_url_format_valid(url)
    THEN [result |-> probe_result(outcome, today), requests |-> <<url>>, url_data |-> cache]
    ELSE [result |-> [date |-> today, isOk |-> FALSE, text |-> Lit("No valid URL format")],
          requests |-> <<>>, url_data |-> cache]

-----------------------------------------------------------------------------
(* check_data, lines 101-306: the body of the loop for one element.        *)
(* st = [issues, undefined, url_data, calls]: the two lists of the         *)
(* element's properties, the global url_data and the calls of is_url_ok    *)
(* made so far for the element.                                            *)

\* osm_element.get("tags", {})
TagsOf(el) == IF "tags" \in DOMAIN el THEN el.tags ELSE <<>>

\* lines 125-132: <<lon, lat>>
Coordinates(el) ==
    IF el.type = s_node
    THEN <<IF "lon" \in DOMAIN el THEN el.lon ELSE None,
           IF "lat" \in DOMAIN el THEN el.lat ELSE None>>
    ELSE <<IF "lon" \in DOMAIN el.center THEN el.center.lon ELSE None,
           IF "lat" \in DOMAIN el.center THEN el.center.lat ELSE None>>

\* lines 130-131: center_coordinates is None and None has no get: AttributeError
Raises(el) == el.type \in {s_way, s_relation} /\ "center" \notin DOMAIN el

\* lines 139-151: the name before the replacement
RawName(type, id, tags) ==
    IF Has(tags, k_name) THEN Get(tags, k_name, <<>>)
    ELSE IF Has(tags, k_name_en) THEN Get(tags, k_name_en, <<>>)
    ELSE IF Get(tags, k_amenity, <<>>) = s_vending_machine THEN s_vending_machine_name
    ELSE type \o <<" ">> \o Str(id)

\* lines 139-155: the name
NameOf(el) == Replace(RawName(el.type, el.id, TagsOf(el)), s_quote, s_rdquote)

\* line 153
NameUndefined(tags) ==
    IF ~Has(tags, k_name) /\ ~Has(tags, k_name_en)
       /\ Get(tags, k_amenity, <<>>) # s_vending_machine
    THEN <<"name">> ELSE <<>>

\* lines 159-166
DietIssues(tags) ==
    IF Has(tags, k_diet_vegan)
       /\ Get(tags, k_diet_vegan, <<>>) \notin {s_only, s_yes, s_limited, s_no}
    THEN <<Msg("'diet:vegan' has an unusual value: ", Get(tags, k_diet_vegan, <<>>))>>
    ELSE <<>>

DietUndefined(tags) == IF Has(tags, k_diet_vegan) THEN <<>> ELSE <<"diet:vegan">>

\* line 169: the rules below it, and the append of line 304, are under this test
InScope(tags) == Get(tags, k_diet_vegan, <<>>) # s_no

\* lines 171-174
CuisineUndefined(tags) ==
    IF ~Has(tags, k_cuisine) /\ ~Has(tags, k_shop)
       /\ Get(tags, k_amenity, <<>>) \notin {s_cafe, s_ice_cream, s_bar}
    THEN <<"cuisine">> ELSE <<>>

\* lines 177-189
AddressUndefined(tags) ==
    (IF ~Has(tags, k_addr_street) THEN <<"addr:street">> ELSE <<>>)
    \o (IF ~Has(tags, k_addr_housenumber) THEN <<"addr:housenumber">> ELSE <<>>)
    \o (IF ~Has(tags, k_addr_city) /\ ~Has(tags, k_addr_suburb)
        THEN <<"addr:city/suburb">> ELSE <<>>)
    \o (IF ~Has(tags, k_addr_postcode) THEN <<"addr:postcode">> ELSE <<>>)

\* the record of a call is_url_ok(url) that returned r
Call(url, cache, outcome, r) ==
    [url |-> url,
     hit |-> url \in DOMAIN cache,
     outcome |-> outcome,
     result |-> r.result,
     requests |-> r.requests,
     stored |-> IF url \in DOMAIN r.url_data THEN <<r.url_data[url]>> ELSE <<>>]

\* st after a call is_url_ok(url) that returned r: the issue when isOk is False
Called(st, url, outcome, issue, r) ==
    [issues |-> IF r.result.isOk = FALSE THEN Append(st.issues, Lit(issue)) ELSE st.issues,
     undefined |-> st.undefined,
     url_data |-> r.url_data,
     calls |-> Append(st.calls, Call(url, st.url_data, outcome, r))]

\* a call is_url_ok(url) of check_data
CheckUrl(st, url, today, outcome, issue) ==
    Called(st, url, outcome, issue, is_url_ok(url, st.url_data, today, outcome))

AddIssues(st, more) == [st EXCEPT !.issues = @ \o more]

\* lines 193-197
ContactWebsite(st, tags, today, outcome) ==
    IF Has(tags, k_contact_website)
    THEN CheckUrl(st, Get(tags, k_contact_website, <<>>), today, outcome,
                  "'contact:website' URI invalid")
    ELSE st

\* lines 198-202
Website(st, tags, today, outcome) ==
    IF Has(tags, k_website)
    THEN CheckUrl(st, Get(tags, k_website, <<>>), today, outcome, "'website' URI invalid")
    ELSE st

\* lines 192-199: the variable website after both tags were read: the value
\* of website when that tag is present, assigned after that of contact:website
website(tags) ==
    IF Has(tags, k_website) THEN Get(tags, k_website, <<>>)
    ELSE IF Has(tags, k_contact_website) THEN Get(tags, k_contact_website, <<>>)
    ELSE s_undefined

\* lines 203-211
WebsiteIssues(tags) ==
    (IF Contains(website(tags), s_facebook)
     THEN <<Lit("'facebook' URI as website -> change to 'contact:facebook'")>> ELSE <<>>)
    \o (IF Contains(website(tags), s_instagram)
        THEN <<Lit("'instagram' URI as website -> change to 'contact:instagram'")>> ELSE <<>>)
    \o (IF Has(tags, k_contact_website) /\ Has(tags, k_website)
        THEN <<Lit("'website' and 'contact:website' defined -> remove one")>> ELSE <<>>)

\* lines 222 and 238: whether the elif chain reaches the call of is_url_ok
ReachesUrlCheck(tags, key, root) ==
    /\ Has(tags, key)
    /\ ~StartsWith(Get(tags, key, <<>>), s_http)
    /\ StartsWith(Get(tags, key, <<>>), root)

\* lines 214-224
ContactFacebook(st, tags, today, outcome) ==
    IF ~Has(tags, k_contact_facebook) THEN st
    ELSE IF StartsWith(Get(tags, k_contact_facebook, <<>>), s_http)
    THEN AddIssues(st, <<Lit("'contact:facebook' starts with 'http' instead of 'https'")>>)
    ELSE IF ~StartsWith(Get(tags, k_contact_facebook, <<>>), s_fb_root)
    THEN AddIssues(st, <<Lit("'contact:facebook' does not starts with 'https://www.facebook.com/'")>>)
    ELSE CheckUrl(st, Get(tags, k_contact_facebook, <<>>), today, outcome,
                  "'contact:facebook' URI invalid")

\* lines 225-227
OldFacebook(st, tags) ==
    IF Has(tags, k_facebook)
    THEN AddIssues(st, <<Lit("old tag: 'facebook' -> change to 'contact:facebook'")>>)
    ELSE st

\* lines 214-227
Facebook(st, tags, today, outcome) ==
    OldFacebook(ContactFacebook(st, tags, today, outcome), tags)

\* lines 230-240
ContactInstagram(st, tags, today, outcome) ==
    IF ~Has(tags, k_contact_instagram) THEN st
    ELSE IF StartsWith(Get(tags, k_contact_instagram, <<>>), s_http)
    THEN AddIssues(st, <<Lit("'contact:instagram' starts with 'http' instead of 'https'")>>)
    ELSE IF ~StartsWith(Get(tags, k_contact_instagram, <<>>), s_ig_root)
    THEN AddIssues(st, <<Lit("'contact:instagram' does not starts with 'https://www.instagram.com/'")>>)
    ELSE CheckUrl(st, Get(tags, k_contact_instagram, <<>>), today, outcome,
                  "'contact:instagram' URI invalid")

\* lines 241-243
OldInstagram(st, tags) ==
    IF Has(tags, k_instagram) THEN AddIssues(st, <<Lit("old tag 'instagram'")>>) ELSE st

\* lines 230-243
Instagram(st, tags, today, outcome) ==
    OldInstagram(ContactInstagram(st, tags, today, outcome), tags)

\* the explanation of an EmailNotValidError, which the email_validator
\* library words
s_email_error == <<"?">>

\* lines 246-258; valid: validate_email(email) returns without raising
EmailIssues(tags, valid) ==
    (IF (Has(tags, k_contact_email) \/ Has(tags, k_email)) /\ ~valid
     THEN <<Msg("E-Mail is not valid: ", s_email_error)>> ELSE <<>>)
    \o (IF Has(tags, k_contact_email) /\ Has(tags, k_email)
        THEN <<Lit("'email' and 'contact:email' defined -> remove one")>> ELSE <<>>)

\* what validate_email can do when called: return, or raise EmailNotValidError
EmailOracle(tags) ==
    IF Has(tags, k_contact_email) \/ Has(tags, k_email) THEN BOOLEAN ELSE {TRUE}

\* lines 261-273
PhoneIssues(tags) ==
    (IF Has(tags, k_contact_phone) /\ ~StartsWith(Get(tags, k_contact_phone, <<>>), s_plus)
     THEN <<Lit("'contact:phone' has no international format like '+44 20 84527891'")>>
     ELSE <<>>)
    \o (IF Has(tags, k_phone) /\ ~StartsWith(Get(tags, k_phone, <<>>), s_plus)
        THEN <<Lit("'phone' has no international format like '+44 20 84527891'")>>
        ELSE <<>>)
    \o (IF Has(tags, k_contact_phone) /\ Has(tags, k_phone)
        THEN <<Lit("'phone' and 'contact:phone' defined -> remove one")>> ELSE <<>>)

\* lines 277: the covid19 value is used
UsesCovid19(tags) ==
    /\ Has(tags, k_opening_hours_covid19)
    /\ Get(tags, k_opening_hours_covid19, <<>>) \notin {s_same, s_restricted}

\* lines 276-283: the variable opening_hours
OpeningHours(tags) ==
    IF UsesCovid19(tags) THEN Get(tags, k_opening_hours_covid19, <<>>)
    ELSE IF Has(tags, k_opening_hours) THEN Get(tags, k_opening_hours, <<>>)
    ELSE s_undefined

\* lines 281-283
OpeningUndefined(tags) ==
    IF ~UsesCovid19(tags) /\ ~Has(tags, k_opening_hours) THEN <<"opening_hours">> ELSE <<>>

\* lines 284-286
OpeningIssues(tags) ==
    IF Contains(OpeningHours(tags), s_lf) \/ Contains(OpeningHours(tags), s_cr)
    THEN <<Lit("There is a line break in 'opening_hours' -> remove")>> ELSE <<>>

\* line 289: "disused" in "".join(tags), the concatenation of the keys
HasDisused(tags) == Contains(Join(Keys(tags)), s_disused)

\* lines 289-291
DisusedIssues(tags) ==
    IF HasDisused(tags)
    THEN <<Lit("There is a 'disused' tag: Check whether this tag is correct. If so, please remove the diet tags.")>>
    ELSE <<>>

\* issue_number with the undefined tags left out of the count
issue_number_issues_only(issues, undefined) == Len(issues)

\* lines 294-295
issue_number(issues, undefined) == Len(issues) + Len(undefined)

\* lines 297-298
DropIssues(properties) ==
    IF Len(properties.issues) = 0 THEN Del(properties, "issues") ELSE properties

\* lines 299-300
DropUndefined(properties) ==
    IF Len(properties.undefined) = 0 THEN Del(properties, "undefined") ELSE properties

\* lines 294-300: the count, then the empty lists deleted
Finalize(properties) ==
    DropUndefined(DropIssues(
        Put(properties, "issue_number",
            issue_number(properties.issues, properties.undefined))))

\* lines 119-123, 141-156: the properties before the diet value
BaseProperties(el, tags) ==
    [_id |-> el.id, _type |-> el.type, name |-> NameOf(el),
     undefined |-> NameUndefined(tags) \o DietUndefined(tags),
     issues |-> DietIssues(tags)]

\* lines 119-166: the properties before the rules under line 169
Properties0(el) ==
    IF Has(TagsOf(el), k_diet_vegan)
    THEN Put(BaseProperties(el, TagsOf(el)), "diet_vegan", Get(TagsOf(el), k_diet_vegan, <<>>))
    ELSE BaseProperties(el, TagsOf(el))

\* st before the first rule under line 169
St0(el, cache) ==
    [issues |-> Properties0(el).issues, undefined |-> Properties0(el).undefined,
     url_data |-> cache, calls |-> <<>>]

\* lines 171-189
AfterAddress(st, tags) ==
    [st EXCEPT !.undefined = @ \o CuisineUndefined(tags) \o AddressUndefined(tags)]

\* lines 203-211
AfterWebsite(st, tags) == AddIssues(st, WebsiteIssues(tags))

\* lines 246-291
AfterContact(st, tags, valid) ==
    [st EXCEPT !.issues = @ \o EmailIssues(tags, valid) \o PhoneIssues(tags)
                            \o OpeningIssues(tags) \o DisusedIssues(tags),
               !.undefined = @ \o OpeningUndefined(tags)]

\* lines 119-136, 293-304: the feature appended for el
Feature(el, st) ==
    [type |-> "Feature",
     properties |-> Finalize([Properties0(el) EXCEPT !.issues = st.issues,
                                                     !.undefined = st.undefined]),
     geometry |-> [type |-> "Point", coordinates |-> Coordinates(el)]]

-----------------------------------------------------------------------------
(* The inputs: values of tags *)

u_site == <<"h","t","t","p","s",":","/","/","a",".","e","x","a","m","p","l","e">>
u_bad == <<"n","o","t"," ","a"," ","u","r","l">>
u_nohost == <<"m","a","i","l","t","o",":","x">>
u_fb == <<"h","t","t","p","s",":","/","/","w","w","w",".","f","a","c","e","b","o","o","k",".","c","o","m","/","x">>
u_fb_http == <<"h","t","t","p",":","/","/","w","w","w",".","f","a","c","e","b","o","o","k",".","c","o","m","/","x">>
u_ig == <<"h","t","t","p","s",":","/","/","w","w","w",".","i","n","s","t","a","g","r","a","m",".","c","o","m","/","y">>
u_ig_short == <<"i","n","s","t","a","g","r","a","m",".","c","o","m","/","y">>
v_green_bowl == <<"G","r","e","e","n"," ","B","o","w","l">>
v_maybe == <<"m","a","y","b","e">>
v_phone_intl == <<"+","4","4"," ","2","0"," ","8","4","5","2","7","8","9","1">>
v_phone_local == <<"0","2","0"," ","8","4","5","2","7","8","9","1">>
v_hours == <<"M","o","-","F","r"," ","0","9",":","0","0","-","1","7",":","0","0">>
v_mail == <<"a","@","b",".","e","x","a","m","p","l","e">>
v_x == <<"x">>
k_disused_amenity == <<"d","i","s","u","s","e","d",":","a","m","e","n","i","t","y">>
k_note_dis == <<"n","o","t","e",":","d","i","s">>
k_used == <<"u","s","e","d">>
v_quoted == <<"a","\"","b","\"">>
v_hours_broken == <<"M","o","\n","T","u">>
-----------------------------------------------------------------------------
(* The inputs: elements of OVERPASS_FILE *)

Tag(key, value) == [k |-> key, v |-> value]

Node(id, tags) == [id |-> id, type |-> s_node, lat |-> "1.0", lon |-> "2.0", tags |-> tags]

\* the address, cuisine and opening hours tags of a complete element
CompleteTags ==
    <<Tag(k_cuisine, v_x), Tag(k_addr_street, v_x), Tag(k_addr_housenumber, v_x),
      Tag(k_addr_city, v_x), Tag(k_addr_postcode, v_x), Tag(k_opening_hours, v_hours)>>

\* elements that differ in the urls they name
UrlElements ==
    { Node(1, <<Tag(k_diet_vegan, s_yes), Tag(k_website, u_site)>>),
      Node(2, <<Tag(k_diet_vegan, s_only), Tag(k_contact_website, u_bad)>>),
      Node(3, <<Tag(k_contact_facebook, u_fb), Tag(k_website, u_nohost)>>),
      Node(4, <<Tag(k_diet_vegan, s_no), Tag(k_website, u_site)>>),
      [id |-> 5, type |-> s_way, tags |-> <<Tag(k_website, u_site)>>] }

\* elements that differ in what the rules of check_data find
RuleElements ==
    { \* nothing to report
      Node(11, <<Tag(k_name, v_green_bowl), Tag(k_diet_vegan, s_yes)>> \o CompleteTags),
      \* a name and a diet only
      Node(42, <<Tag(k_diet_vegan, s_only), Tag(k_name, v_green_bowl)>>),
      \* out of scope
      Node(13, <<Tag(k_name, v_green_bowl), Tag(k_diet_vegan, s_no),
                 Tag(k_website, u_bad), Tag(k_phone, v_phone_local)>>),
      \* a node without lat
      [id |-> 14, type |-> s_node, lon |-> "2.0",
       tags |-> <<Tag(k_diet_vegan, s_yes)>> \o CompleteTags],
      \* a way without tags
      [id |-> 15, type |-> s_way, center |-> [lat |-> "1.0", lon |-> "2.0"]],
      \* a way without center
      [id |-> 16, type |-> s_way, tags |-> <<Tag(k_diet_vegan, s_yes)>>],
      \* a relation whose center has no lon
      [id |-> 17, type |-> s_relation, center |-> [lat |-> "1.0"],
       tags |-> <<Tag(k_name_en, v_quoted), Tag(k_diet_vegan, s_limited)>> \o CompleteTags],
      \* both website tags, facebook in contact:website
      Node(18, <<Tag(k_diet_vegan, s_yes), Tag(k_contact_website, u_fb),
                 Tag(k_website, u_site)>> \o CompleteTags),
      \* both website tags, instagram in website
      Node(19, <<Tag(k_diet_vegan, s_yes), Tag(k_contact_website, u_site),
                 Tag(k_website, u_ig)>> \o CompleteTags),
      \* two keys that spell disused only together
      Node(20, <<Tag(k_name, v_green_bowl), Tag(k_diet_vegan, s_yes), Tag(k_note_dis, v_x),
                 Tag(k_used, v_x)>> \o CompleteTags),
      \* a disused key
      Node(21, <<Tag(k_name, v_green_bowl), Tag(k_diet_vegan, s_yes),
                 Tag(k_disused_amenity, s_cafe)>> \o CompleteTags),
      \* contact tags with faults
      Node(22, <<Tag(k_diet_vegan, v_maybe), Tag(k_amenity, s_cafe),
                 Tag(k_contact_facebook, u_fb_http), Tag(k_facebook, v_x),
                 Tag(k_contact_instagram, u_ig_short), Tag(k_instagram, v_x),
                 Tag(k_contact_email, v_mail), Tag(k_email, v_mail),
                 Tag(k_contact_phone, v_phone_intl), Tag(k_phone, v_phone_local),
                 Tag(k_opening_hours_covid19, s_same), Tag(k_opening_hours, v_hours_broken)>>),
      \* a vending machine with reachable contact urls
      Node(23, <<Tag(k_amenity, s_vending_machine), Tag(k_diet_vegan, s_yes),
                 Tag(k_shop, v_x), Tag(k_addr_suburb, v_x),
                 Tag(k_contact_instagram, u_ig), Tag(k_email, v_mail),
                 Tag(k_opening_hours_covid19, v_hours)>>) }

\* the sequences over S of length at most n
SeqsUpTo(S, n) == UNION {[1..k -> S] : k \in 0..n}

-----------------------------------------------------------------------------
(* The inputs: content of URL_DATA_FILE *)

Entry(date, isOk, text) == [date |-> date, isOk |-> isOk, text |-> text]

\* the entries a cache file read on the day today may hold for a url,
\* <<>> for none
SiteEntries(today) ==
    { <<>>,
      <<Entry(today - RetentionDays - 1, TRUE, Lit("OK"))>>,
      <<Entry(today - RetentionDays, TRUE, Lit("OK"))>>,
      <<Entry(today - RetentionDays, FALSE, Msg("HTTP response code ", Str(404)))>> }

BadEntries(today) ==
    { <<>>,
      <<Entry(today - RetentionDays, TRUE, Lit("OK"))>>,
      <<Entry(today - RetentionDays - 1, FALSE, Lit("No valid URL format"))>> }

\* the dict of the file with the entry e1 for u_site and e2 for u_bad
CacheOf(e1, e2) ==
    [u \in (IF e1 = <<>> THEN {} ELSE {u_site}) \cup (IF e2 = <<>> THEN {} ELSE {u_bad})
       |-> IF u = u_site THEN e1[1] ELSE e2[1]]

CacheFiles(today) == {CacheOf(e1, e2) : e1 \in SiteEntries(today), e2 \in BadEntries(today)}

\* the date of the first run
FirstDates == {100}

\* the state of a new process, lines 16-26, before main is called
InitProcess ==
    /\ pc = "start"
    /\ run = 1
    /\ DATE \in FirstDates
    /\ result_file = <<>>
    /\ url_data = <<>>
    /\ loaded = <<>>
    /\ idx = 1
    /\ features = <<>>
    /\ calls = <<>>
    /\ probed = {}
    /\ looked_up = {}
    /\ prev = <<>>

\* runs over the cache files, on elements that differ in their urls
Init ==
    /\ InitProcess
    /\ overpass \in SeqsUpTo(UrlElements, MaxElements)
    /\ url_file \in CacheFiles(DATE)

\* runs over the elements the rules tell apart, on one cache file
InitRules ==
    /\ InitProcess
    /\ overpass \in SeqsUpTo(RuleElements, MaxElements)
    /\ url_file = CacheOf(<<Entry(DATE - RetentionDays, TRUE, Lit("OK"))>>, <<>>)

-----------------------------------------------------------------------------
(* main, lines 309-349 *)

\* Prune with entries of exactly 28 days deleted too
Prune_ge(cache, today) ==
    [u \in {x \in DOMAIN cache : ~(today - cache[x].date >= RetentionDays)} |-> cache[u]]

\* lines 318-326: the entries left after those older than 28 days are deleted
Prune(cache, today) ==
    [u \in {x \in DOMAIN cache : ~(today - cache[x].date > RetentionDays)} |-> cache[u]]

\* lines 313-329 and 103-107: the cache file is loaded and pruned, the element
\* file is read and check_data starts
Start ==
    /\ pc = "start"
    /\ loaded' = url_file
    /\ url_data' = Prune(url_file, DATE)
    /\ idx' = 1
    /\ features' = <<>>
    /\ pc' = "check"
    /\ UNCHANGED <<run, DATE, overpass, url_file, result_file, calls, probed, looked_up, prev>>

\* lines 110-304: one turn of the loop of check_data, for an element whose
\* coordinates are read without an exception
CheckElement ==
    /\ pc = "check"
    /\ idx <= Len(overpass)
    /\ ~Raises(overpass[idx])
    /\ \E el \in {overpass[idx]} : \E tags \in {TagsOf(el)} :
       IF ~InScope(tags)
       THEN /\ UNCHANGED <<features, url_data, probed, looked_up>>
            /\ calls' = <<>>
       ELSE \E st0 \in {AfterAddress(St0(el, url_data), tags)} :
            \E o1 \in Oracle(Has(tags, k_contact_website),
                             Get(tags, k_contact_website, <<>>), st0.url_data) :
            \E st1 \in {ContactWebsite(st0, tags, DATE, o1)} :
            \E o2 \in Oracle(Has(tags, k_website), Get(tags, k_website, <<>>),
                             st1.url_data) :
            \E st2 \in {AfterWebsite(Website(st1, tags, DATE, o2), tags)} :
            \E o3 \in Oracle(ReachesUrlCheck(tags, k_contact_facebook, s_fb_root),
                             Get(tags, k_contact_facebook, <<>>), st2.url_data) :
            \E st3 \in {Facebook(st2, tags, DATE, o3)} :
            \E o4 \in Oracle(ReachesUrlCheck(tags, k_contact_instagram, s_ig_root),
                             Get(tags, k_contact_instagram, <<>>), st3.url_data) :
            \E st4 \in {Instagram(st3, tags, DATE, o4)} :
            \E valid \in EmailOracle(tags) :
            \E st5 \in {AfterContact(st4, tags, valid)} :
                /\ features' = Append(features, Feature(el, st5))
                /\ url_data' = st5.url_data
                /\ calls' = st5.calls
                /\ probed' = probed \cup UNION {Range(c.requests) : c \in Range(st5.calls)}
                /\ looked_up' = looked_up \cup {c.url : c \in Range(st5.calls)}
    /\ idx' = idx + 1
    /\ UNCHANGED <<pc, run, DATE, overpass, url_file, result_file, loaded, prev>>

\* lines 130-131: the AttributeError ends the process; no file is written
CrashElement ==
    /\ pc = "check"
    /\ idx <= Len(overpass)
    /\ Raises(overpass[idx])
    /\ pc' = "crashed"
    /\ UNCHANGED <<run, DATE, overpass, url_file, result_file, url_data, loaded, idx,
                   features, calls, probed, looked_up, prev>>

\* lines 305-306 and 332-338: check_data returns and the result file is written
WriteResult ==
    /\ pc = "check"
    /\ idx > Len(overpass)
    /\ result_file' = <<features>>
    /\ pc' = "write_cache"
    /\ UNCHANGED <<run, DATE, overpass, url_file, url_data, loaded, idx, features, calls,
                   probed, looked_up, prev>>

\* lines 343-347: the cache file is rewritten from url_data
WriteCache ==
    /\ pc = "write_cache"
    /\ url_file' = url_data
    /\ pc' = "done"
    /\ UNCHANGED <<run, DATE, overpass, result_file, url_data, loaded, idx, features, calls,
                   probed, looked_up, prev>>

\* the days between one run and the next
Gaps == {1, 29}

\* the script is run again, on the same element file and the files the run
\* before wrote: lines 16-26 of a new process
NextRun ==
    /\ pc = "done"
    /\ run < MaxRuns
    /\ \E gap \in Gaps : DATE' = DATE + gap
    /\ run' = run + 1
    /\ pc' = "start"
    /\ url_data' = <<>>
    /\ loaded' = <<>>
    /\ idx' = 1
    /\ features' = <<>>
    /\ calls' = <<>>
    /\ probed' = {}
    /\ looked_up' = {}
    /\ prev' = <<[DATE |-> DATE, looked_up |-> looked_up]>>
    /\ UNCHANGED <<overpass, url_file, result_file>>

\* one run of main, and runs of it one after another
Next == Start \/ CheckElement \/ CrashElement \/ WriteResult \/ WriteCache \/ NextRun

\* one run of main
NextOnce == Start \/ CheckElement \/ CrashElement \/ WriteResult \/ WriteCache

-----------------------------------------------------------------------------
(* What the claims read *)

\* the issues of a feature as serialized: none when the key is absent
IssuesOf(f) == IF "issues" \in DOMAIN f.properties THEN f.properties.issues ELSE <<>>

\* the undefined tags of a feature as serialized: none when the key is absent
UndefinedOf(f) == IF "undefined" \in DOMAIN f.properties THEN f.properties.undefined ELSE <<>>

\* the elements of the input that a feature reports on
Reported(f) == {el \in Range(overpass) : el.id = f.properties._id}

\* the features of check_data, in memory and in the result file
Emitted == Range(features) \cup UNION {Range(fs) : fs \in Range(result_file)}

\* the age in days of a cache entry on the day of the run
Age(entry) == DATE - entry.date

\* the entry a call of is_url_ok returned, as the cache would hold it
EntryOf(c) == [date |-> DATE, isOk |-> c.result.isOk, text |-> c.result.text]

-----------------------------------------------------------------------------
(* The claims *)

\* C1: after a call of is_url_ok for a url that was not in the cache, url_data
\* holds an entry for the url with today's date and the returned isOk and text.
C1_MissIsStored ==
    \A c \in Range(calls) : ~c.hit => c.stored = <<EntryOf(c)>>

\* C2: a run that starts from the cache file the run before wrote, at most 28
\* days later, requests no url that the run before looked up.
C2_NoProbeOnRerun ==
    (prev # <<>> /\ DATE - prev[1].DATE <= RetentionDays)
        => probed \cap prev[1].looked_up = {}

\* C3: when check_data has returned, the features hold one report per element,
\* and an element with diet:vegan = no has a report with its id, type, name,
\* coordinates and diet value and no finding of a later rule.
C3_ReportForOutOfScope ==
    pc \in {"write_cache", "done"} =>
        /\ Len(features) = Len(overpass)
        /\ \A el \in Range(overpass) :
              ~InScope(TagsOf(el)) =>
                  \E f \in Range(features) :
                      /\ f.properties._id = el.id
                      /\ f.properties._type = el.type
                      /\ f.properties.name = NameOf(el)
                      /\ f.properties.diet_vegan = s_no
                      /\ f.geometry.coordinates = Coordinates(el)
                      /\ IssuesOf(f) = <<>>
                      /\ Range(UndefinedOf(f)) \subseteq {"name"}

\* C4: in every emitted report issue_number is the number of serialized issues
\* plus the number of serialized undefined tags, an absent list counting 0,
\* and a list that is present is not empty.
C4_IssueNumber ==
    \A f \in Emitted :
        /\ f.properties.issue_number = Len(IssuesOf(f)) + Len(UndefinedOf(f))
        /\ "issues" \in DOMAIN f.properties => Len(f.properties.issues) > 0
        /\ "undefined" \in DOMAIN f.properties => Len(f.properties.undefined) > 0

\* C4 witness: a report without issues and with 6 undefined tags, and a report
\* with neither list and issue_number 0.
C4_Witness ==
    /\ \E f \in Emitted :
          /\ "issues" \notin DOMAIN f.properties
          /\ "undefined" \in DOMAIN f.properties
          /\ f.properties.issue_number = 6
    /\ \E f \in Emitted :
          /\ "issues" \notin DOMAIN f.properties
          /\ "undefined" \notin DOMAIN f.properties
          /\ f.properties.issue_number = 0

\* C5: no call of is_url_ok precedes the pruning; after the pruning no entry
\* of url_data is older than 28 days, every loaded entry of 28 days or less is
\* in url_data unchanged, a lookup of a loaded entry older than 28 days is a
\* miss and a hit returns an entry of url_data; the rewritten file holds the
\* same: no entry older than 28 days, every loaded entry of 28 days or less.
C5_Pruned ==
    /\ pc = "start" => (calls = <<>> /\ looked_up = {})
    /\ pc # "start" =>
          /\ \A u \in DOMAIN url_data : Age(url_data[u]) <= 28
          /\ \A u \in DOMAIN loaded :
                Age(loaded[u]) <= 28 => (u \in DOMAIN url_data /\ url_data[u] = loaded[u])
          /\ \A c \in Range(calls) :
                /\ (c.url \in DOMAIN loaded /\ Age(loaded[c.url]) > 28) => ~c.hit
                /\ c.hit => /\ c.url \in DOMAIN url_data
                            /\ c.result.isOk = url_data[c.url].isOk
                            /\ c.result.text = url_data[c.url].text
    /\ pc = "done" =>
          /\ \A u \in DOMAIN url_file : Age(url_file[u]) <= 28
          /\ \A u \in DOMAIN loaded :
                Age(loaded[u]) <= 28 => (u \in DOMAIN url_file /\ url_file[u] = loaded[u])

\* C5 witness: the cache file is rewritten in a run that loaded an entry of 29
\* days and one of 28 days, and whose latest element was answered from the cache.
C5_Witness ==
    /\ pc = "done"
    /\ \E u \in DOMAIN loaded : Age(loaded[u]) = 29 /\ u \notin DOMAIN url_file
    /\ \E u \in DOMAIN loaded : Age(loaded[u]) = 28 /\ u \in DOMAIN url_file
    /\ \E c \in Range(calls) : c.hit

\* C6: a call of is_url_ok for a url that fails the format check makes no
\* request and returns isOk = False with the text "No valid URL format",
\* whatever the cache holds.
C6_MalformedAlwaysRejected ==
    \A c \in Range(calls) :
        ~is_url_format_valid(c.url) =>
            /\ c.requests = <<>>
            /\ c.result.isOk = FALSE
            /\ c.result.text = Lit("No valid URL format")

\* C6 as amended: a call of is_url_ok for a url that fails the format check
\* makes no request; when the url is not in the cache it returns isOk = False
\* with the text "No valid URL format", and when it is, the cached isOk and text.
C6_MalformedNoRequest ==
    \A c \in Range(calls) :
        ~is_url_format_valid(c.url) =>
            /\ c.requests = <<>>
            /\ ~c.hit => /\ c.result.isOk = FALSE
                         /\ c.result.text = Lit("No valid URL format")
            /\ c.hit => /\ c.result.isOk = url_data[c.url].isOk
                        /\ c.result.text = url_data[c.url].text

\* C6 witness: is_url_ok was called for "not a url", which the cache did not hold.
C6_Witness ==
    \E c \in Range(calls) :
        /\ c.url = <<"n", "o", "t", " ", "a", " ", "u", "r", "l">>
        /\ ~c.hit
        /\ c.result.isOk = FALSE

\* C7: a call of is_url_ok for a well-formed url that is not in the cache makes
\* exactly one request, and the outcome of the request decides the result: an
\* exception gives False; a status below 400 gives True and "OK"; 403 and 429
\* give True; any other status gives False and "HTTP response code <status>".
C7_ProbeDecides ==
    \A c \in Range(calls) :
        (~c.hit /\ is_url_format_valid(c.url)) =>
            /\ c.requests = <<c.url>>
            /\ c.outcome \in Outcomes
            /\ c.outcome.exception # <<>> => c.result.isOk = FALSE
            /\ (c.outcome.exception = <<>> /\ c.outcome.status_code < 400) =>
                  (c.result.isOk = TRUE /\ c.result.text = Lit("OK"))
            /\ (c.outcome.exception = <<>> /\ c.outcome.status_code \in {403, 429}) =>
                  c.result.isOk = TRUE
            /\ (c.outcome.exception = <<>> /\ c.outcome.status_code >= 400
                  /\ c.outcome.status_code \notin {403, 429}) =>
                  /\ c.result.isOk = FALSE
                  /\ c.result.text = Msg("HTTP response code ", Str(c.outcome.status_code))
            /\ (c.outcome.exception = <<>> /\ c.outcome.status_code = 404) =>
                  c.result.text = Msg("HTTP response code ", <<"4", "0", "4">>)

\* C7 witness: a request for a url that was not in the cache was answered 404.
C7_Witness ==
    \E c \in Range(calls) :
        /\ ~c.hit
        /\ c.requests = <<c.url>>
        /\ c.outcome = Response(404)
        /\ c.result.isOk = FALSE

\* C8: for an element with both contact:website and website, the report has the
\* facebook suggestion exactly when the value of contact:website contains
\* "facebook", and the instagram suggestion exactly when it contains "instagram".
C8_ContactWebsiteDecides ==
    \A f \in Range(features) : \A el \in Reported(f) :
        (Has(TagsOf(el), k_contact_website) /\ Has(TagsOf(el), k_website)) =>
            /\ Lit("'facebook' URI as website -> change to 'contact:facebook'")
                    \in Range(IssuesOf(f))
                <=> Contains(Get(TagsOf(el), k_contact_website, <<>>), s_facebook)
            /\ Lit("'instagram' URI as website -> change to 'contact:instagram'")
                    \in Range(IssuesOf(f))
                <=> Contains(Get(TagsOf(el), k_contact_website, <<>>), s_instagram)

\* C9: no feature has a coordinate that is None, and an element without the
\* lat or lon of a node, or the center of a way or relation, has no feature.
C9_NoNullCoordinates ==
    /\ \A f \in Range(features) : None \notin Range(f.geometry.coordinates)
    /\ \A el \in Range(overpass) :
          (\/ el.type = s_node /\ ~({"lat", "lon"} \subseteq DOMAIN el)
           \/ el.type \in {s_way, s_relation} /\ "center" \notin DOMAIN el)
              => \A f \in Range(features) : f.properties._id # el.id

\* C10: the report of an element that passed the test of diet:vegan has the
\* disused warning exactly when one of its tag keys contains "disused".
C10_DisusedExactly ==
    \A f \in Range(features) : \A el \in Reported(f) :
        Lit("There is a 'disused' tag: Check whether this tag is correct. If so, please remove the diet tags.")
                \in Range(IssuesOf(f))
            <=> \E key \in Range(Keys(TagsOf(el))) : Contains(key, s_disused)

Spec == Init /\ [][Next]_vars

SpecRules == InitRules /\ [][NextOnce]_vars

=============================================================================
